---- MODULE Spec2Model ----
(***************************************************************************)
(* A model of linetools/analysis/continuum.py: the QSO continuum fit.      *)
(*                                                                         *)
(* Numbers.  The program computes in floating point; the model computes    *)
(* in exact extended rationals [n, d] (d > 0 and gcd(n, d) = 1 for a       *)
(* finite value, d = 0 for +inf (n = 1), -inf (n = -1) and nan (n = 0)),   *)
(* so that every comparison of the code (<, <=, >) is decided exactly.     *)
(* Rounding is not modelled.                                               *)
(*                                                                         *)
(* Language.  linear_co indexes the result of zip (zip of the knots, then   *)
(* [:2]), a list under Python 2, the interpreter the module was written    *)
(* for; the model follows that reading.                                    *)
(*                                                                         *)
(* Indices.  Python slices are 0-based and half-open: the chunk (i, j)     *)
(* holds the pixels i .. j-1, which are the positions i+1 .. j of the      *)
(* 1-based sequences wa, fl, er and masked of the model.                   *)
(***************************************************************************)
EXTENDS Integers, Sequences, FiniteSets, TLC

VARIABLES
    pc,        \* position of the call: which statement block runs next
    entry,     \* the function the caller called
    kind,      \* find_continuum's kind argument
    edgesArg,  \* find_continuum's / prepare_knots' edges argument (<<>> : None)
    kwargs,    \* find_continuum's **kwargs
    meta,      \* spec.meta
    wa, fl, er,\* the spectrum: s.wa, s.fl, s.er
    maxiter,   \* estimate_continuum's maxiter
    nsig,      \* estimate_continuum's nsig
    edges,     \* the local edges of find_continuum
    knots,     \* list of [x, y, flag]
    indices,   \* list of (i, j)
    masked,    \* boolean array
    oldmasked, \* the copy of masked taken before outlier masking
    count,     \* the loop counter of estimate_continuum
    co,        \* the returned continuum
    contpoints,\* the returned [k[:2] for k in knots]
    exc        \* the exception that ended the call ("" : none)

vars == <<pc, entry, kind, edgesArg, kwargs, meta, wa, fl, er, maxiter, nsig,
          edges, knots, indices, masked, oldmasked, count, co, contpoints, exc>>

-----------------------------------------------------------------------------
(* Extended rational arithmetic: the floats of the program, without rounding *)

Abs(a) == IF a < 0 THEN 0 - a ELSE a

Sign(a) == IF a < 0 THEN 0 - 1 ELSE IF a > 0 THEN 1 ELSE 0

RECURSIVE GCD(_, _)
GCD(a, b) == IF b = 0 THEN a ELSE GCD(b, a % b)

LCM(a, b) == (a * b) \div GCD(a, b)

Norm(n, d) ==
    IF d = 0 THEN [n |-> Sign(n), d |-> 0]
    ELSE LET g == GCD(Abs(n), Abs(d))
             s == Sign(d)
         IN  [n |-> (s * n) \div g, d |-> (s * d) \div g]

Rat(i) == [n |-> i, d |-> 1]

NaN == [n |-> 0, d |-> 0]

IsNaN(a) == a.d = 0 /\ a.n = 0

IsFinite(a) == a.d > 0

RNeg(a) == [n |-> 0 - a.n, d |-> a.d]

RAdd(a, b) ==
    IF a.d > 0 /\ b.d > 0 THEN Norm(a.n * b.d + b.n * a.d, a.d * b.d)
    ELSE IF IsNaN(a) \/ IsNaN(b) THEN NaN
    ELSE IF a.d = 0 /\ b.d = 0 THEN (IF a.n = b.n THEN a ELSE NaN)
    ELSE IF a.d = 0 THEN a ELSE b

RSub(a, b) == RAdd(a, RNeg(b))

RMul(a, b) ==
    IF a.d > 0 /\ b.d > 0 THEN Norm(a.n * b.n, a.d * b.d)
    ELSE [n |-> Sign(a.n) * Sign(b.n), d |-> 0]

RInv(a) == Norm(a.d, a.n)

RDiv(a, b) == RMul(a, RInv(b))

RLt(a, b) ==
    IF IsNaN(a) \/ IsNaN(b) THEN FALSE
    ELSE IF a.d = 0 /\ b.d = 0 THEN a.n < b.n
    ELSE a.n * b.d < b.n * a.d

RLe(a, b) == ~IsNaN(a) /\ ~IsNaN(b) /\ ~RLt(b, a)

RGt(a, b) == RLt(b, a)

Half(a) == RDiv(a, Rat(2))

Ceil(a) == 0 - ((0 - a.n) \div a.d)

-----------------------------------------------------------------------------
(* numpy primitives *)

\* a.searchsorted(v), side = left, of a sorted sequence a of rationals
SearchSorted(a, v) == Cardinality({i \in DOMAIN a : RLt(a[i], v)})

\* the pixels (positions of the model) of the slice [i:j]
Slice(i, j) == (i + 1) .. j

\* the k-th smallest of the integers f[p], p in P
KthSmallest(f, P, k) ==
    CHOOSE v \in {f[p] : p \in P} :
        /\ Cardinality({p \in P : f[p] < v}) < k
        /\ Cardinality({p \in P : f[p] <= v}) >= k

\* np.median of the integers f[p], p in P: nan for an empty array
Median(f, P) ==
    LET n == Cardinality(P)
    IN  IF n = 0 THEN NaN
        ELSE IF n % 2 = 1 THEN Rat(KthSmallest(f, P, (n + 1) \div 2))
        ELSE Half(Rat(KthSmallest(f, P, n \div 2)
                      + KthSmallest(f, P, n \div 2 + 1)))

\* np.interp(x, xp, fp): linear between the points, the end values outside
Interp(x, xp, fp) ==
    LET n == Len(xp)
    IN  IF RLt(x, xp[1]) THEN fp[1]
        ELSE IF RLe(xp[n], x) THEN fp[n]
        ELSE LET j == CHOOSE i \in 1 .. (n - 1) :
                          RLe(xp[i], x) /\ RLt(x, xp[i + 1])
                 slope == RDiv(RSub(fp[j + 1], fp[j]), RSub(xp[j + 1], xp[j]))
             IN  RAdd(RMul(slope, RSub(x, xp[j])), fp[j])

\* np.sum of the rationals r[p], p in lo .. hi and p in P
RECURSIVE RSum(_, _, _, _)
RSum(r, P, lo, hi) ==
    IF lo > hi THEN Rat(0)
    ELSE IF lo \in P THEN RAdd(r[lo], RSum(r, P, lo + 1, hi))
    ELSE RSum(r, P, lo + 1, hi)

-----------------------------------------------------------------------------
(* make_chunks_qso *)

\* the table div: (left, right, num)
DivTable ==
    << <<500, 800, 25>>,    <<800, 1190, 25>>,   <<1190, 1213, 4>>,
       <<1213, 1230, 6>>,   <<1230, 1263, 6>>,   <<1263, 1290, 5>>,
       <<1290, 1340, 5>>,   <<1340, 1370, 2>>,   <<1370, 1410, 5>>,
       <<1410, 1515, 5>>,   <<1515, 1600, 15>>,  <<1600, 1800, 8>>,
       <<1800, 1900, 5>>,   <<1900, 1940, 5>>,   <<1940, 2240, 15>>,
       <<2240, 3000, 25>>,  <<3000, 6000, 80>>,  <<6000, 20000, 100>> >>

\* div.num after the two np.ceil assignments: rows 0, 1 (the forest) by
\* forest_divmult, the other rows by divmult
DivNum(r, divmult, forest_divmult) ==
    Ceil(RMul(Rat(DivTable[r][3]), IF r <= 2 THEN forest_divmult ELSE divmult))

\* np.linspace(left, right, n+1)[:-1] of row r, left and right scaled by zp1
Linspace(r, zp1, n) ==
    LET left  == RMul(Rat(DivTable[r][1]), zp1)
        right == RMul(Rat(DivTable[r][2]), zp1)
    IN  [j \in 1 .. n |->
            RAdd(left, RDiv(RMul(Rat(j - 1), RSub(right, left)), Rat(n)))]

\* np.concatenate(temp) of the rows 1 .. r
RECURSIVE ConcatRows(_, _, _, _)
ConcatRows(r, zp1, divmult, forest_divmult) ==
    IF r = 0 THEN << >>
    ELSE ConcatRows(r - 1, zp1, divmult, forest_divmult)
         \o Linspace(r, zp1, DivNum(r, divmult, forest_divmult))

\* all the edges of the scaled table, before the slice
AllEdges(redshift, divmult, forest_divmult) ==
    ConcatRows(Len(DivTable), RAdd(Rat(1), redshift), divmult, forest_divmult)

\* the returned edges[i0:i2]
make_chunks_qso(w, redshift, divmult, forest_divmult) ==
    LET all == AllEdges(redshift, divmult, forest_divmult)
        i0  == SearchSorted(all, Rat(w[1]))
        i2  == SearchSorted(all, Rat(w[Len(w)]))
    IN  SubSeq(all, i0 + 1, i2)

-----------------------------------------------------------------------------
(* The knot functions.  Those that modify their arguments in place are      *)
(* operators that give the new value.                                       *)

\* the unmasked pixels of the chunk c = (i, j) under the mask m
Unmasked(c, m) == {p \in Slice(c[1], c[2]) : ~m[p]}

\* update_knots without the test of the flag
update_knots_all(kn, ind, f, m) ==
    [k \in DOMAIN ind |-> [kn[k] EXCEPT !.y = Median(f, Unmasked(ind[k], m))]]

\* update_knots: the new knots
update_knots(kn, ind, f, m) ==
    [k \in DOMAIN ind |->
        IF kn[k].flag THEN kn[k]
        ELSE [kn[k] EXCEPT !.y = Median(f, Unmasked(ind[k], m))]]

\* linear_co, for at least two knots
linear_co(w, kn) ==
    LET n       == Len(kn)
        wavc    == [k \in 1 .. n |-> kn[k].x]
        mfl     == [k \in 1 .. n |-> kn[k].y]
        extwavc == <<RSub(wavc[1], RSub(wavc[2], wavc[1]))>> \o wavc
                   \o <<RAdd(wavc[n], RSub(wavc[n], wavc[n - 1]))>>
        extmfl  == <<RSub(mfl[1], RSub(mfl[2], mfl[1]))>> \o mfl
                   \o <<RAdd(mfl[n], RSub(mfl[n], mfl[n - 1]))>>
    IN  [p \in DOMAIN w |-> Interp(Rat(w[p]), extwavc, extmfl)]

\* AkimaSpline(x, y)(w) of linetools.analysis.interp, which is not part of
\* the sources at hand: an interpolant through the points (x, y), defined
\* outside their range too.  Between two points it is taken as the chord,
\* outside the range as the end value.
AkimaSpline(x, y, w) == [p \in DOMAIN w |-> Interp(Rat(w[p]), x, y)]

\* Akima_co
Akima_co(w, kn) ==
    AkimaSpline([k \in DOMAIN kn |-> kn[k].x], [k \in DOMAIN kn |-> kn[k].y], w)

\* remove_bad_knots without the test of the median flux
BadKnotsMasked(ind, m, f, e) ==
    {k \in DOMAIN ind : \A p \in Slice(ind[k][1], ind[k][2]) : m[p]}

\* remove_bad_knots: the positions of idelknot
BadKnots(ind, m, f, e) ==
    {k \in DOMAIN ind :
        LET P == Slice(ind[k][1], ind[k][2])
        IN  \/ \A p \in P : m[p]
            \/ RLe(Median(f, P), RMul(Rat(2), Median(e, P)))}

\* s without the positions of D, in order
RECURSIVE Without(_, _)
Without(s, D) ==
    IF Len(s) = 0 THEN << >>
    ELSE LET n == Len(s)
             front == Without(SubSeq(s, 1, n - 1), D)
         IN  IF n \in D THEN front ELSE Append(front, s[n])

\* remove_bad_knots with del indices[-1] in place of del indices[i]
remove_bad_knots_last(kn, ind, m, f, e) ==
    LET D == BadKnots(ind, m, f, e)
    IN  [knots   |-> Without(kn, D),
         indices |-> SubSeq(ind, 1, Len(ind) - Cardinality(D))]

\* remove_bad_knots: the new knots and the new indices (for i in
\* reversed(idelknot): del knots[i]; del indices[i])
remove_bad_knots(kn, ind, m, f, e) ==
    LET D == BadKnots(ind, m, f, e)
    IN  [knots |-> Without(kn, D), indices |-> Without(ind, D)]

\* the reduced chi-square of one chunk: rchisq = chisq / len(f1)
RChisq(model, f, e, m, c) ==
    LET P     == Unmasked(c, m)
        resid == [p \in DOMAIN f |->
                     RDiv(RSub(model[p], Rat(f[p])), Rat(e[p]))]
        sq    == [p \in DOMAIN f |-> RMul(resid[p], resid[p])]
        chisq == RSum(sq, P, 1, Len(f))
    IN  RDiv(chisq, Rat(Cardinality(P)))

\* chisq_chunk with rchisq <= chithresh
chisq_chunk_le(model, f, e, m, ind, kn, chithresh) ==
    [k \in DOMAIN ind |->
        IF kn[k].flag THEN kn[k]
        ELSE IF RLe(RChisq(model, f, e, m, ind[k]), chithresh)
             THEN [kn[k] EXCEPT !.flag = TRUE]
             ELSE kn[k]]

\* chisq_chunk: the new knots
chisq_chunk(model, f, e, m, ind, kn, chithresh) ==
    [k \in DOMAIN ind |->
        IF kn[k].flag THEN kn[k]
        ELSE IF RLt(RChisq(model, f, e, m, ind[k]), chithresh)
             THEN [kn[k] EXCEPT !.flag = TRUE]
             ELSE kn[k]]

\* prepare_knots: knots, indices, masked
prepare_knots(w, f, e, edg) ==
    LET wr   == [p \in DOMAIN w |-> Rat(w[p])]
        ss   == [i \in DOMAIN edg |-> SearchSorted(wr, edg[i])]
        ind0 == [i \in 1 .. (Len(edg) - 1) |-> <<ss[i], ss[i + 1]>>]
        wavc == [i \in 1 .. (Len(edg) - 1) |-> Half(RAdd(edg[i], edg[i + 1]))]
        kn0  == [i \in DOMAIN wavc |-> [x |-> wavc[i], y |-> Rat(0), flag |-> FALSE]]
        m    == [p \in DOMAIN w |-> ~(e[p] > 0)]
        kept == remove_bad_knots(kn0, ind0, m, f, e)
    IN  [knots   |-> update_knots(kept.knots, kept.indices, f, m),
         indices |-> kept.indices,
         masked  |-> m]

\* np.argsort(f1), for the valid pixels of a chunk: q comes after p.
\* The default sort of the numpy releases that run under Python 2 is an
\* insertion sort below 17 elements, which keeps equal fluxes in index order.
SortsAfter(q, p, f) == f[q] > f[p] \/ (f[q] = f[p] /\ q > p)

\* ind[e0 > 0][isort[:minpix]]: the pixels of lowest flux
BottomPixels(c, f, e, minpix) ==
    LET valid == {p \in Slice(c[1], c[2]) : e[p] > 0}
    IN  {p \in valid :
            Cardinality({q \in valid : SortsAfter(p, q, f)}) < minpix}

\* ind[isort[-minpix:]]: the pixels of highest flux, whatever their error
TopPixelsAnyError(c, f, e, minpix) ==
    LET all  == Slice(c[1], c[2])
        size == IF minpix = 0 \/ minpix > Cardinality(all)
                THEN Cardinality(all) ELSE minpix
    IN  {p \in all : Cardinality({q \in all : SortsAfter(q, p, f)}) < size}

\* unmask, one chunk: the pixels set to unmasked,
\* ind1 = ind[e0 > 0][isort[-minpix:]] (isort[-0:] is all of isort)
TopPixels(c, f, e, minpix) ==
    LET valid == {p \in Slice(c[1], c[2]) : e[p] > 0}
        nv    == Cardinality(valid)
        size  == IF minpix = 0 \/ minpix > nv THEN nv ELSE minpix
    IN  {p \in valid :
            Cardinality({q \in valid : SortsAfter(q, p, f)}) < size}

\* if np.sum(~masked[i:j]) < minpix
TooFew(c, m, minpix) == Cardinality(Unmasked(c, m)) < minpix

\* unmask, one chunk: the new mask
UnmaskChunk(m, c, f, e, minpix) ==
    IF TooFew(c, m, minpix)
    THEN [p \in DOMAIN m |->
             IF p \in TopPixels(c, f, e, minpix) THEN FALSE ELSE m[p]]
    ELSE m

\* unmask, the chunks 1 .. k in order: the new mask
RECURSIVE UnmaskUpTo(_, _, _, _, _, _)
UnmaskUpTo(k, m, ind, f, e, minpix) ==
    IF k = 0 THEN m
    ELSE UnmaskChunk(UnmaskUpTo(k - 1, m, ind, f, e, minpix),
                     ind[k], f, e, minpix)

\* unmask without effect
unmask_nothing(m, ind, f, e, minpix) == m

\* unmask: the new mask
unmask(m, ind, f, e, minpix) == UnmaskUpTo(Len(ind), m, ind, f, e, minpix)

\* masked[(np.abs(resid) > nsig) & ~masked] = True
MaskOutliersBothSides(model, f, e, m, ns) ==
    [p \in DOMAIN m |->
        \/ m[p]
        \/ RGt(RDiv(RSub(model[p], Rat(f[p])), Rat(e[p])), ns)
        \/ RGt(RDiv(RSub(Rat(f[p]), model[p]), Rat(e[p])), ns)]

\* masked[(resid > nsig) & ~masked] = True, resid = (model - s.fl) / s.er
MaskOutliers(model, f, e, m, ns) ==
    [p \in DOMAIN m |->
        \/ m[p]
        \/ RGt(RDiv(RSub(model[p], Rat(f[p])), Rat(e[p])), ns)]

\* co = Akima_co(s.wa, knots), without the clipping
UnclippedAkima(w, kn) == Akima_co(w, kn)

\* co = Akima_co(s.wa, knots); co[co <= 0] = 0
ClippedAkima(w, kn) ==
    LET a == Akima_co(w, kn)
    IN  [p \in DOMAIN w |-> IF RLe(a[p], Rat(0)) THEN Rat(0) ELSE a[p]]

-----------------------------------------------------------------------------
(* Program constants *)

\* maxiter=1000, the default of estimate_continuum
DefaultMaxiter == 1000

\* nsig=1.5, the default of estimate_continuum
DefaultNsig == Half(Rat(3))

\* minpix=3, the default of unmask
DefaultMinpix == 3

\* chithresh=1, passed by estimate_continuum to chisq_chunk
ChiThresh == 1

\* kwargs.get('divmult', 2) and kwargs.get('forest_divmult', 2)
DefaultDivmult == 2

-----------------------------------------------------------------------------
(* The inputs of the model *)

\* the number of pixels of the spectrum
NPix == 6

\* the largest maxiter a caller of estimate_continuum passes
MaxMaxiter == 1

\* the largest number of leading pixels without a measurement (error <= 0)
MaxInvalid == 3

\* s.wa: a grid of 3 Angstrom steps from 1340 Angstrom
WaGrid == [p \in 1 .. NPix |-> 1337 + 3 * p]

\* the fluxes of a pixel
FluxValues == {0 - 1, 7, 8}

\* s.er: no measurement in the first k pixels, an error of 1 in the others
ErPattern(k) == [p \in 1 .. NPix |-> IF p <= k THEN 0 ELSE 1]

None == [given |-> FALSE, val |-> << >>]

Some(v) == [given |-> TRUE, val |-> v]

\* the explicit edges a caller passes
FirstEdges == <<Rat(1340), Rat(1352), Rat(1358)>>

EdgeChoices == {FirstEdges, <<Rat(1340), Rat(1349), Rat(1364)>>}

\* explicit edges whose first chunk starts below the first wavelength
EarlyEdges == <<Rat(1334), Rat(1346), Rat(1358)>>

\* kind.upper()
Upper(k) == IF k = "qso" THEN "QSO" ELSE IF k = "default" THEN "DEFAULT" ELSE k

NoExc == [type |-> "", msg |-> ""]

Raise(t, m) == [type |-> t, msg |-> m]

-----------------------------------------------------------------------------
(* The calls *)

\* a continuum of 8 with absorption lines of flux lo in the pixels a and b
LineSpectrum(a, b, lo) == [p \in 1 .. NPix |-> IF p = a \/ p = b THEN lo ELSE 8]

\* the flux of a flat spectrum, in units of a tenth: a flux of 1
FlatFlux == 10

\* the constant errors of a flat spectrum, in units of a tenth: 0.1 and 1
FlatErrors == {1, 10}

\* a flat spectrum of error e whose pixel a (if any) is a spike of
\* flux 1 - 10 * error
FlatSpectrum(a, e) ==
    [p \in 1 .. NPix |-> IF p = a THEN FlatFlux - 10 * e ELSE FlatFlux]

\* the keyword arguments a caller of find_continuum passes
KwargsChoices ==
    { [k \in {} |-> 0],
      [k \in {"redshift"} |-> 0],
      [k \in {"redshift", "divmult"} |-> IF k = "redshift" THEN 0 ELSE 4],
      [k \in {"minpix"} |-> 0],
      [k \in {"maxiter"} |-> 0],
      [k \in {"nsig"} |-> 3] }

\* spec.meta
MetaChoices == { [k \in {} |-> 0], [k \in {"redshift"} |-> 1] }

InitLocals ==
    /\ edges = None
    /\ knots = << >>
    /\ indices = << >>
    /\ masked = << >>
    /\ oldmasked = << >>
    /\ count = 0
    /\ co = << >>
    /\ contpoints = << >>
    /\ exc = NoExc

\* a caller of find_continuum(spec, edges, kind, **kwargs)
InitFind ==
    /\ entry = "find_continuum"
    /\ pc = "find_continuum"
    /\ kind \in {"QSO", "qso", "default"}
    /\ edgesArg \in {None, Some(FirstEdges)}
    /\ kwargs \in KwargsChoices
    /\ meta \in MetaChoices
    /\ maxiter = DefaultMaxiter
    /\ nsig = DefaultNsig
    /\ wa = WaGrid
    /\ fl \in {LineSpectrum(a, b, lo) :
                  a \in 1 .. NPix, b \in 1 .. NPix, lo \in FluxValues}
    /\ er \in {ErPattern(0), ErPattern(MaxInvalid - 1)}

\* a caller of prepare_knots(wa, fl, er, edges) and then of
\* estimate_continuum(s, knots, indices, masked, maxiter=..., nsig=...)
InitEstimate ==
    /\ entry = "estimate_continuum"
    /\ pc = "prepare_knots"
    /\ kind = "QSO"
    /\ edgesArg \in {Some(e) : e \in EdgeChoices}
    /\ kwargs = [k \in {} |-> 0]
    /\ meta = [k \in {} |-> 0]
    /\ maxiter \in 0 .. MaxMaxiter
    /\ nsig = DefaultNsig
    /\ wa = WaGrid
    /\ fl \in [1 .. NPix -> FluxValues]
    /\ er \in {ErPattern(k) : k \in 0 .. MaxInvalid}

\* a caller of prepare_knots and estimate_continuum with a flat spectrum, one
\* pixel of which may be a spike
InitFlat ==
    /\ entry = "estimate_continuum"
    /\ pc = "prepare_knots"
    /\ kind = "QSO"
    /\ edgesArg \in {Some(e) : e \in EdgeChoices}
    /\ kwargs = [k \in {} |-> 0]
    /\ meta = [k \in {} |-> 0]
    /\ maxiter = DefaultMaxiter
    /\ nsig = DefaultNsig
    /\ wa = WaGrid
    /\ \E a \in 0 .. NPix, e \in FlatErrors :
           /\ fl = FlatSpectrum(a, e)
           /\ er = [p \in 1 .. NPix |-> e]

\* a caller of prepare_knots and estimate_continuum with a spectrum of
\* absorption lines and edges that start below the first wavelength
InitLines ==
    /\ entry = "estimate_continuum"
    /\ pc = "prepare_knots"
    /\ kind = "QSO"
    /\ edgesArg = Some(EarlyEdges)
    /\ kwargs = [k \in {} |-> 0]
    /\ meta = [k \in {} |-> 0]
    /\ maxiter = DefaultMaxiter
    /\ nsig = DefaultNsig
    /\ wa = WaGrid
    /\ fl \in {LineSpectrum(a, b, lo) :
                  a \in 1 .. NPix, b \in 1 .. NPix, lo \in FluxValues}
    /\ er \in {ErPattern(k) : k \in 0 .. MaxInvalid}

Init == InitLocals /\ (InitFind \/ InitEstimate \/ InitFlat \/ InitLines)

\* a redshift of 0 where find_continuum raises
RedshiftOrZero(kw, mt) ==
    IF "redshift" \in DOMAIN kw THEN Some(kw["redshift"])
    ELSE IF "redshift" \in DOMAIN mt THEN Some(mt["redshift"])
    ELSE Some(0)

\* 'redshift' in kwargs, else 'redshift' in spec.meta, else none
Redshift(kw, mt) ==
    IF "redshift" \in DOMAIN kw THEN Some(kw["redshift"])
    ELSE IF "redshift" \in DOMAIN mt THEN Some(mt["redshift"])
    ELSE None

\* kwargs.get(key, default)
Get(kw, key, default) == IF key \in DOMAIN kw THEN kw[key] ELSE default

\* the kind that find_continuum accepts
IsQSO(k) == Upper(k) = "QSO"

\* the edges the knots are made from
UsedEdges == IF entry = "find_continuum" THEN edges.val ELSE edgesArg.val

\* if count > maxiter + 1
ExceededLate(c, mx) == c > mx + 1

\* if count > maxiter
Exceeded(c, mx) == c > mx

\* [k[1::-1] for k in knots]: the pairs (y, x)
ContPointsSwapped(kn) == [k \in DOMAIN kn |-> <<kn[k].y, kn[k].x>>]

\* [k[:2] for k in knots]: the pairs (x, y)
ContPoints(kn) == [k \in DOMAIN kn |-> <<kn[k].x, kn[k].y>>]

\* np.any(flags)
AnyFrozen(kn) == \E k \in DOMAIN kn : kn[k].flag

\* flags = zip(*knots)[-1]; np.all(flags)
AllFrozen(kn) == \A k \in DOMAIN kn : kn[k].flag

\* find_continuum, lines 311-334: the edges, or the failure
FindContinuum ==
    /\ pc = "find_continuum"
    /\ IF edgesArg.given
       THEN /\ edges' = Some(edgesArg.val)
            /\ pc' = "prepare_knots"
            /\ exc' = exc
       ELSE IF IsQSO(kind)
       THEN LET z == Redshift(kwargs, meta)
            IN  IF z.given
                THEN /\ edges' = Some(make_chunks_qso(
                                     wa, Rat(z.val),
                                     Rat(Get(kwargs, "divmult", DefaultDivmult)),
                                     Rat(Get(kwargs, "forest_divmult", DefaultDivmult))))
                     /\ pc' = "prepare_knots"
                     /\ exc' = exc
                ELSE /\ exc' = Raise("RuntimeError",
                                     "I need the emission redshift for kind='qso'")
                     /\ pc' = "raised"
                     /\ edges' = edges
       ELSE /\ exc' = Raise("ValueError", "Kind keyword unknown")
            /\ pc' = "raised"
            /\ edges' = edges
    /\ UNCHANGED <<entry, kind, edgesArg, kwargs, meta, wa, fl, er, maxiter, nsig,
                   knots, indices, masked, oldmasked, count, co, contpoints>>

\* prepare_knots (called by find_continuum, line 341, or by the caller)
PrepareKnots ==
    /\ pc = "prepare_knots"
    /\ LET r == prepare_knots(wa, fl, er, UsedEdges)
       IN  /\ knots' = r.knots
           /\ indices' = r.indices
           /\ masked' = r.masked
    /\ pc' = "loop"
    /\ UNCHANGED <<entry, kind, edgesArg, kwargs, meta, wa, fl, er, maxiter, nsig,
                   edges, oldmasked, count, co, contpoints, exc>>

\* estimate_continuum, lines 230-239: one pass up to the test of the flags.
\* linear_co fails on fewer than two knots: on none when it unpacks the
\* empty zip, on one at wavc[1].
LoopFit ==
    /\ pc = "loop"
    /\ IF Len(knots) = 0
       THEN /\ exc' = Raise("ValueError", "need more than 0 values to unpack")
            /\ pc' = "raised"
            /\ knots' = update_knots(knots, indices, fl, masked)
       ELSE IF Len(knots) = 1
       THEN /\ exc' = Raise("IndexError", "tuple index out of range")
            /\ pc' = "raised"
            /\ knots' = update_knots(knots, indices, fl, masked)
       ELSE LET kn1     == update_knots(knots, indices, fl, masked)
                model_a == Akima_co(wa, kn1)
                kn2     == chisq_chunk(model_a, fl, er, masked, indices, kn1,
                                       Rat(ChiThresh))
            IN  /\ knots' = kn2
                /\ pc' = IF AllFrozen(kn2) THEN "finish" ELSE "mask"
                /\ exc' = exc
    /\ UNCHANGED <<entry, kind, edgesArg, kwargs, meta, wa, fl, er, maxiter, nsig,
                   edges, indices, masked, oldmasked, count, co, contpoints>>

\* estimate_continuum, lines 240-244: the outliers of the linear model
LoopMask ==
    /\ pc = "mask"
    /\ oldmasked' = masked
    /\ masked' = MaskOutliers(linear_co(wa, knots), fl, er, masked, nsig)
    /\ pc' = "unmask"
    /\ UNCHANGED <<entry, kind, edgesArg, kwargs, meta, wa, fl, er, maxiter, nsig,
                   edges, knots, indices, count, co, contpoints, exc>>

\* estimate_continuum, lines 245-253: unmask, and the end of the pass
LoopUnmask ==
    /\ pc = "unmask"
    /\ LET m == unmask(masked, indices, fl, er, DefaultMinpix)
       IN  /\ masked' = m
           /\ IF m = oldmasked
              THEN pc' = "finish" /\ count' = count /\ exc' = exc
              ELSE IF Exceeded(count, maxiter)
              THEN /\ pc' = "raised"
                   /\ count' = count
                   /\ exc' = Raise("RuntimeError", "Exceeded maximum iterations")
              ELSE pc' = "loop" /\ count' = count + 1 /\ exc' = exc
    /\ UNCHANGED <<entry, kind, edgesArg, kwargs, meta, wa, fl, er, maxiter, nsig,
                   edges, knots, indices, oldmasked, co, contpoints>>

\* estimate_continuum, lines 255-265, and find_continuum, line 352
Finish ==
    /\ pc = "finish"
    /\ co' = ClippedAkima(wa, knots)
    /\ contpoints' = IF entry = "find_continuum"
                     THEN ContPoints(knots)
                     ELSE contpoints
    /\ pc' = "returned"
    /\ UNCHANGED <<entry, kind, edgesArg, kwargs, meta, wa, fl, er, maxiter, nsig,
                   edges, knots, indices, masked, oldmasked, count, exc>>

Next ==
    \/ FindContinuum
    \/ PrepareKnots
    \/ LoopFit
    \/ LoopMask
    \/ LoopUnmask
    \/ Finish

Spec == Init /\ [][Next]_vars

-----------------------------------------------------------------------------
(* The claims *)

Done == pc \in {"returned", "raised"}

\* the statement blocks, each of which can always run to its end
Running == {"find_continuum", "prepare_knots", "loop", "mask", "unmask", "finish"}

MsgRedshift == "I need the emission redshift for kind='qso'"

MsgKind == "Kind keyword unknown"

MsgMaxiter == "Exceeded maximum iterations"

\* the locals of the call are as before the call
Untouched ==
    /\ edges = None
    /\ knots = << >>
    /\ indices = << >>
    /\ masked = << >>
    /\ oldmasked = << >>
    /\ count = 0
    /\ co = << >>
    /\ contpoints = << >>

\* the statements still to run are at most Measure many: three per pass
\* that may still start, one to finish
Measure ==
    LET left == 3 * (maxiter + 2 - count)
    IN  CASE pc = "find_continuum" -> 3 * (maxiter + 2) + 3
          [] pc = "prepare_knots"  -> 3 * (maxiter + 2) + 2
          [] pc = "loop"           -> left + 1
          [] pc = "mask"           -> left
          [] pc = "unmask"         -> left - 1
          [] pc = "finish"         -> 1
          [] OTHER                 -> 0

\* C1: every run stops, with a continuum or with a failure, after a number
\* of passes that maxiter alone bounds: count never exceeds maxiter + 1 (at
\* most maxiter + 2 passes start), every statement lowers a measure that
\* starts at 3 * (maxiter + 2) + 3 and never gets negative, and a run that
\* has not stopped is at a statement of the program.
C1_BoundedPasses ==
    /\ [](/\ count <= maxiter + 1
          /\ Measure >= 0
          /\ (Done \/ pc \in Running))
    /\ [][Measure' < Measure]_vars

\* a run on at least two knots that ends in the convergence failure
C1_Witness ==
    /\ pc = "raised"
    /\ exc.msg = MsgMaxiter
    /\ Len(knots) >= 2
    /\ count = maxiter + 1

\* C2: with maxiter = 0 the failure is raised at the end of the first pass
\* that ends without a stop condition: no second pass starts.
C2_NoSecondPass == (maxiter = 0 /\ pc = "loop") => count = 0

\* C3: a knot whose flag is true keeps its flag, its x, its y and its index
\* range in every later state.
C3_FrozenKnotFixed ==
    [][\A k \in DOMAIN knots :
           knots[k].flag =>
               /\ k \in DOMAIN knots'
               /\ knots'[k] = knots[k]
               /\ indices'[k] = indices[k]]_vars

\* a pass starts with a frozen knot whose chunk has since been masked so
\* that the median of its unmasked fluxes is no longer the knot's y
C3_Witness ==
    /\ pc = "loop"
    /\ \E k \in DOMAIN knots :
           /\ knots[k].flag
           /\ knots[k].y # Median(fl, Unmasked(indices[k], masked))

\* C4: the knots and the index ranges have the same length, and the knot at
\* position k is the midpoint of an edge pair whose pixel range is the index
\* range at position k; the knots are in the order of the edges.
C4_KnotsAligned ==
    /\ Len(knots) = Len(indices)
    /\ \A k \in DOMAIN knots :
           \E i \in 1 .. (Len(UsedEdges) - 1) :
               /\ knots[k].x = Half(RAdd(UsedEdges[i], UsedEdges[i + 1]))
               /\ indices[k] =
                      <<SearchSorted([p \in DOMAIN wa |-> Rat(wa[p])], UsedEdges[i]),
                        SearchSorted([p \in DOMAIN wa |-> Rat(wa[p])], UsedEdges[i + 1])>>
    /\ \A k \in 1 .. (Len(knots) - 1) : RLt(knots[k].x, knots[k + 1].x)

\* a run that returns after the pruning dropped some chunk and kept others
C4_Witness ==
    /\ pc = "returned"
    /\ Len(knots) >= 2
    /\ Len(knots) < Len(UsedEdges) - 1

\* C5: the returned continuum is nowhere negative: it is the Akima model
\* where that is positive and zero elsewhere.
C5_ContinuumNonNegative ==
    pc = "returned" =>
        \A p \in DOMAIN wa :
            /\ RLe(Rat(0), co[p])
            /\ co[p] = IF RGt(Akima_co(wa, knots)[p], Rat(0))
                       THEN Akima_co(wa, knots)[p] ELSE Rat(0)

\* a returned continuum where the Akima model is negative somewhere
C5_Witness ==
    /\ pc = "returned"
    /\ \E p \in DOMAIN wa : RLt(Akima_co(wa, knots)[p], Rat(0))

\* a call of find_continuum with kind QSO and no edges
QSOCall ==
    /\ entry = "find_continuum"
    /\ ~edgesArg.given
    /\ kind \in {"QSO", "qso"}

\* C6: a QSO call without edges and without a redshift in the arguments and
\* in the metadata fails with the redshift error before anything is computed
\* (no edges, no knots, no mask, no pass), and the spectrum is never changed;
\* with a redshift in both, the call does not fail so, and the edges are
\* those of the redshift of the arguments.
C6_MissingRedshift ==
    /\ []((QSOCall /\ pc # "find_continuum") =>
            /\ ("redshift" \notin DOMAIN kwargs /\ "redshift" \notin DOMAIN meta) =>
                   /\ pc = "raised"
                   /\ exc = Raise("RuntimeError", MsgRedshift)
                   /\ Untouched
            /\ ("redshift" \in DOMAIN kwargs /\ "redshift" \in DOMAIN meta) =>
                   /\ exc.msg \notin {MsgRedshift, MsgKind}
                   /\ edges = Some(make_chunks_qso(
                                  wa, Rat(kwargs["redshift"]),
                                  Rat(Get(kwargs, "divmult", DefaultDivmult)),
                                  Rat(Get(kwargs, "forest_divmult", DefaultDivmult)))))
    /\ [][wa' = wa /\ fl' = fl /\ er' = er /\ meta' = meta]_vars

\* the QSO call without any redshift has failed
C6_Witness ==
    /\ QSOCall
    /\ "redshift" \notin DOMAIN kwargs
    /\ "redshift" \notin DOMAIN meta
    /\ pc = "raised"

\* the error kinds of the two failures C7 compares with
RedshiftErrorType == "RuntimeError"

ConvergenceErrorType == "RuntimeError"

\* C7: a call with an unrecognized kind, in which the kind is consulted (no
\* explicit edges), fails before any computation, with the error kind of the
\* missing-redshift failure, which is not the error kind of the convergence
\* failure.
C7_SameKindAsRedshift ==
    (/\ entry = "find_continuum"
     /\ ~edgesArg.given
     /\ kind \notin {"QSO", "qso"}
     /\ pc # "find_continuum") =>
        /\ pc = "raised"
        /\ Untouched
        /\ exc.type = RedshiftErrorType
        /\ exc.type # ConvergenceErrorType

\* the pixels of the chunk c that have a valid error
ValidPixels(c) == {p \in Slice(c[1], c[2]) : er[p] > 0}

\* the mask of the last pass between its outlier step and its unmask step
BeforeUnmask == MaskOutliers(linear_co(wa, knots), fl, er, oldmasked, nsig)

\* C8, as claimed: the unmask step leaves a chunk with at least minpix
\* unmasked pixels as it is; in a chunk with fewer, and with at least minpix
\* valid pixels, exactly minpix pixels are unmasked after the step, and no
\* valid pixel that is still masked has more flux than a newly unmasked one.
C8_ExactlyMinpix ==
    [][pc = "unmask" =>
          \A k \in DOMAIN indices :
              LET c      == indices[k]
                  before == Unmasked(c, masked)
                  after  == Unmasked(c, masked')
              IN  IF Cardinality(before) >= DefaultMinpix
                  THEN after = before
                  ELSE Cardinality(ValidPixels(c)) >= DefaultMinpix =>
                           /\ Cardinality(after) = DefaultMinpix
                           /\ \A p \in after \ before, q \in ValidPixels(c) \ after :
                                  fl[p] >= fl[q]]_vars

\* C8, amended: the unmask step leaves a chunk with at least minpix unmasked
\* pixels as it is; in a chunk with fewer, and with at least minpix valid
\* pixels, at least minpix pixels are unmasked after the step: the pixels
\* unmasked before stay so, the new ones are valid, no valid pixel that is
\* still masked has more flux than a new one, and each still masked valid
\* pixel has minpix unmasked pixels of at least its flux.
C8_AtLeastMinpix ==
    [][pc = "unmask" =>
          \A k \in DOMAIN indices :
              LET c      == indices[k]
                  before == Unmasked(c, masked)
                  after  == Unmasked(c, masked')
              IN  IF Cardinality(before) >= DefaultMinpix
                  THEN after = before
                  ELSE Cardinality(ValidPixels(c)) >= DefaultMinpix =>
                           /\ before \subseteq after
                           /\ (after \ before) \subseteq ValidPixels(c)
                           /\ after # before
                           /\ Cardinality(after) >= DefaultMinpix
                           /\ \A p \in after \ before, q \in ValidPixels(c) \ after :
                                  fl[p] >= fl[q]
                           /\ \A q \in ValidPixels(c) \ after :
                                  Cardinality({p \in after : fl[p] >= fl[q]})
                                      >= DefaultMinpix]_vars

\* a pass has ended whose unmask step found a chunk with fewer than minpix
\* unmasked pixels and left it with more than minpix
C8_Witness ==
    /\ \/ pc = "loop" /\ count >= 1
       \/ pc = "finish" /\ \E k \in DOMAIN knots : ~knots[k].flag
       \/ pc = "raised" /\ exc.msg = MsgMaxiter
    /\ \E k \in DOMAIN indices :
           /\ Cardinality(Unmasked(indices[k], BeforeUnmask)) < DefaultMinpix
           /\ Cardinality(ValidPixels(indices[k])) >= DefaultMinpix
           /\ Cardinality(Unmasked(indices[k], masked)) > DefaultMinpix

\* C9: in a call with minpix = 0 every pixel that is masked at the end of
\* a pass (the start of the next) is masked at the end of the next pass.
C9_MaskNeverShrinks ==
    [][("minpix" \in DOMAIN kwargs /\ kwargs["minpix"] = 0 /\ pc = "unmask") =>
          \A p \in DOMAIN masked : oldmasked[p] => masked'[p]]_vars

\* C10: the edges that make_chunks_qso returns start at or below the
\* smallest wavelength and end at or above the largest, and every pixel is
\* in a chunk [edges[i], edges[i+1]).
C10_EdgesCoverRange ==
    (QSOCall /\ edges.given) =>
        /\ Len(edges.val) >= 1
        /\ RLe(edges.val[1], Rat(wa[1]))
        /\ RLe(Rat(wa[NPix]), edges.val[Len(edges.val)])
        /\ \A p \in DOMAIN wa :
               \E i \in 1 .. (Len(edges.val) - 1) :
                   /\ RLe(edges.val[i], Rat(wa[p]))
                   /\ RLt(Rat(wa[p]), edges.val[i + 1])

\* the wavelengths as rationals
WaRat == [p \in DOMAIN wa |-> Rat(wa[p])]

\* the pixel range of the i-th chunk that the edges imply
ChunkOf(i) ==
    <<SearchSorted(WaRat, UsedEdges[i]), SearchSorted(WaRat, UsedEdges[i + 1])>>

\* the chunks that the edges imply
Chunks == 1 .. (Len(UsedEdges) - 1)

\* the i-th chunk has a pixel with a valid error, and its median flux is
\* greater than twice its median error
Usable(i) ==
    LET P == Slice(ChunkOf(i)[1], ChunkOf(i)[2])
    IN  /\ \E p \in P : er[p] > 0
        /\ RGt(Median(fl, P), RMul(Rat(2), Median(er, P)))

\* the knots have been made
Prepared ==
    /\ pc \notin {"find_continuum", "prepare_knots"}
    /\ entry = "find_continuum" => edges.given

\* C11: from knot initialization on, in every state, the pair of the i-th
\* chunk is in the lists exactly when the chunk has a pixel with error > 0
\* and its median flux is greater than twice its median error, and there
\* are as many knots as such chunks (one less than chunks when exactly one
\* chunk is not usable): a dropped knot never comes back.
C11_KeptExactlyUsable ==
    Prepared =>
        /\ \A i \in Chunks :
               Usable(i) <=>
                   \E k \in DOMAIN knots :
                       /\ knots[k].x = Half(RAdd(UsedEdges[i], UsedEdges[i + 1]))
                       /\ indices[k] = ChunkOf(i)
        /\ Len(knots) = Cardinality({i \in Chunks : Usable(i)})
        /\ Len(indices) = Len(knots)

\* a pass has run on two knots after the pruning dropped the one chunk
\* whose pixels all have no valid error, all other chunks being usable
C11_Witness ==
    /\ Prepared
    /\ pc \in {"mask", "finish"}
    /\ Cardinality({i \in Chunks : ~Usable(i)}) = 1
    /\ \E i \in Chunks :
           /\ Slice(ChunkOf(i)[1], ChunkOf(i)[2]) # {}
           /\ \A p \in Slice(ChunkOf(i)[1], ChunkOf(i)[2]) : er[p] <= 0
    /\ Len(knots) = Len(UsedEdges) - 2
    /\ Len(knots) >= 2

\* the spectrum is flat with the error e everywhere, but for a spike at the
\* pixel a (no spike if a = 0)
FlatRun(a, e) ==
    /\ fl = FlatSpectrum(a, e)
    /\ er = [p \in 1 .. NPix |-> e]

\* the pixel a is in a chunk that has at least minpix other pixels
InLargeChunk(a) ==
    \E i \in Chunks :
        /\ a \in Slice(ChunkOf(i)[1], ChunkOf(i)[2])
        /\ Cardinality(Slice(ChunkOf(i)[1], ChunkOf(i)[2]) \ {a}) >= DefaultMinpix

\* C12: a run on a flat spectrum with one spike of flux 1 - 10 * error, in
\* a chunk with at least minpix other valid pixels, does not fail, and when
\* it has returned the spike is masked and the knot values and the continuum
\* are those of the flat spectrum without the spike, the flat flux everywhere.
C12_SpikeHasNoEffect ==
    \A a \in 0 .. NPix, e \in FlatErrors :
        (FlatRun(a, e) /\ Prepared /\ (a = 0 \/ InLargeChunk(a))) =>
            /\ a # 0 => pc # "raised"
            /\ pc = "returned" =>
                   /\ a # 0 => masked[a]
                   /\ \A k \in DOMAIN knots : knots[k].y = Rat(FlatFlux)
                   /\ \A p \in DOMAIN co : co[p] = Rat(FlatFlux)

\* For the errors below half the flat flux, for which the pruning keeps the
\* chunks, the statement of C12 holds.
FlatHighSignal ==
    \A a \in 0 .. NPix, e \in {x \in FlatErrors : 2 * x < FlatFlux} :
        (FlatRun(a, e) /\ Prepared /\ (a = 0 \/ InLargeChunk(a))) =>
            /\ pc # "raised"
            /\ pc = "returned" =>
                   /\ a # 0 => masked[a]
                   /\ \A k \in DOMAIN knots : knots[k].y = Rat(FlatFlux)
                   /\ \A p \in DOMAIN co : co[p] = Rat(FlatFlux)

\* C13: in a call of find_continuum with the options nsig, maxiter or minpix,
\* the outlier step of every pass masks with the given nsig, the unmask step
\* enforces the given minpix, and a pass that ends without a stop condition
\* after more than the given maxiter passes raises the convergence failure.
C13_OptionsUsed ==
    [][entry = "find_continuum" =>
          /\ ("nsig" \in DOMAIN kwargs /\ pc = "mask") =>
                 masked' = MaskOutliers(linear_co(wa, knots), fl, er, masked,
                                        Rat(kwargs["nsig"]))
          /\ ("minpix" \in DOMAIN kwargs /\ pc = "unmask") =>
                 masked' = unmask(masked, indices, fl, er, kwargs["minpix"])
          /\ ("maxiter" \in DOMAIN kwargs /\ pc = "unmask"
                  /\ masked' # oldmasked /\ count > kwargs["maxiter"]) =>
                 pc' = "raised"]_vars

\* the Akima interpolator alone, on the wavelength grid, through the
\* returned (x, y) list
Regenerated ==
    AkimaSpline([k \in DOMAIN contpoints |-> contpoints[k][1]],
                [k \in DOMAIN contpoints |-> contpoints[k][2]], wa)

\* find_continuum has returned
Returned == entry = "find_continuum" /\ pc = "returned"

\* C14, as claimed: when find_continuum has returned, the interpolator
\* through the returned knots gives the returned continuum at every pixel.
C14_RegeneratedExactly ==
    Returned => \A p \in DOMAIN wa : Regenerated[p] = co[p]

\* C14, amended: when find_continuum has returned, the interpolator through
\* the returned knots gives the returned continuum at every pixel where its
\* value is positive, and the returned continuum is 0 at the other pixels.
C14_RegeneratedUpToClipping ==
    Returned =>
        /\ Len(contpoints) = Len(knots)
        /\ \A p \in DOMAIN wa :
               co[p] = IF RGt(Regenerated[p], Rat(0)) THEN Regenerated[p]
                       ELSE Rat(0)

\* find_continuum has returned a continuum that the interpolator gives at
\* one pixel and that is clipped at another
C14_Witness ==
    /\ Returned
    /\ \E p \in DOMAIN wa : RGt(Regenerated[p], Rat(0)) /\ co[p] = Regenerated[p]
    /\ \E p \in DOMAIN wa : RLt(Regenerated[p], Rat(0)) /\ co[p] = Rat(0)

\* C15: a call that has passed the configuration checks fails in no other
\* way than with the convergence failure, also when the pruning has left
\* one knot or none.
C15_OnlyConvergenceFailure ==
    (Prepared /\ pc = "raised") => exc = Raise(ConvergenceErrorType, MsgMaxiter)

\* the residual of the pixel p against a model, in units of its error
Residual(model, p) == RDiv(RSub(model[p], Rat(fl[p])), Rat(er[p]))

\* C16: the outlier step of a pass masks no masked pixel again and unmasks
\* none; it newly masks exactly the unmasked pixels whose residual against
\* the linear model is greater than nsig, and so no pixel whose flux is at
\* or above the linear model.
C16_OutlierStep ==
    [][pc = "mask" =>
          \A p \in DOMAIN masked :
              /\ masked[p] => masked'[p]
              /\ ~masked[p] =>
                     (masked'[p] <=> RGt(Residual(linear_co(wa, knots), p), nsig))
              /\ RLe(linear_co(wa, knots)[p], Rat(fl[p])) =>
                     masked'[p] = masked[p]]_vars

\* the outlier step has newly masked a pixel whose residual against the
\* Akima model is not greater than nsig, and has left unmasked a pixel whose
\* flux is above the linear model
C16_Witness ==
    /\ pc = "unmask"
    /\ \E p \in DOMAIN masked :
           /\ masked[p] /\ ~oldmasked[p]
           /\ ~RGt(Residual(Akima_co(wa, knots), p), nsig)
    /\ \E p \in DOMAIN masked :
           /\ ~masked[p]
           /\ RGt(RSub(Rat(fl[p]), linear_co(wa, knots)[p]), nsig)

\* C17: the loop is left for the return only by the freeze test of a pass
\* after which every knot is frozen, the mask being as at the start of the
\* pass, or by the unmask step of a pass after which the mask is the one
\* saved before the outlier step, which is the mask at the start of the
\* pass; the return changes neither mask nor knots, and at the return every
\* knot that is not frozen has the median of its chunk under the final mask.
C17_ReturnsOnlyConverged ==
    /\ []((Prepared /\ pc \in {"finish", "returned"}) =>
             /\ (\A k \in DOMAIN knots : knots[k].flag) \/ masked = oldmasked
             /\ \A k \in DOMAIN knots :
                    ~knots[k].flag =>
                        knots[k].y = Median(fl, Unmasked(indices[k], masked)))
    /\ [][/\ (pc # "finish" /\ pc' = "finish") =>
                 \/ /\ pc = "loop"
                    /\ \A k \in DOMAIN knots' : knots'[k].flag
                 \/ /\ pc = "unmask"
                    /\ masked' = oldmasked
          /\ pc = "loop" => masked' = masked
          /\ pc = "mask" => oldmasked' = masked /\ knots' = knots
          /\ pc = "unmask" => oldmasked' = oldmasked /\ knots' = knots
          /\ pc' = "returned" =>
                 pc = "finish" /\ masked' = masked /\ knots' = knots]_vars

\* a run has returned from a later pass that left the mask as it was, with
\* an outlier masked in an earlier pass and a knot that is not frozen
C17_Witness ==
    /\ pc = "returned"
    /\ count >= 1
    /\ masked = oldmasked
    /\ \E k \in DOMAIN knots : ~knots[k].flag
    /\ \E p \in DOMAIN masked : masked[p] /\ er[p] > 0

\* the sum over the unmasked pixels of the chunk c of the squared residuals
\* against a model, divided by the number of these pixels
ReducedChiSquare(model, c) ==
    LET P  == Unmasked(c, masked)
        sq == [p \in DOMAIN fl |-> RMul(Residual(model, p), Residual(model, p))]
    IN  RDiv(RSum(sq, P, 1, Len(fl)), Rat(Cardinality(P)))

\* C18: the freeze test of a pass freezes a knot that is not frozen exactly
\* when the reduced chi-square of its chunk against the Akima model through
\* the knots of this pass is less than 1; these knots have the medians of
\* the pass, and the test changes no knot value.
C18_FreezeTest ==
    [][(pc = "loop" /\ pc' \in {"mask", "finish"}) =>
          \A k \in DOMAIN knots :
              ~knots[k].flag =>
                  /\ knots'[k].y = Median(fl, Unmasked(indices[k], masked))
                  /\ knots'[k].flag <=>
                         RLt(ReducedChiSquare(Akima_co(wa, knots'), indices[k]),
                             Rat(1))]_vars

\* the freeze test has left unfrozen a knot whose reduced chi-square is
\* exactly 1
C18_Witness ==
    /\ pc = "mask"
    /\ \E k \in DOMAIN knots :
           /\ ~knots[k].flag
           /\ ReducedChiSquare(Akima_co(wa, knots), indices[k]) = Rat(1)

\* the unmask step of a pass has just run
JustUnmasked ==
    \/ pc = "loop" /\ count >= 1
    \/ pc = "finish" /\ \E k \in DOMAIN knots : ~knots[k].flag
    \/ pc = "raised" /\ exc.msg = MsgMaxiter

\* C19: from the initial mask on, in every state, every pixel whose error is
\* not greater than 0 is masked.
C19_InvalidStayMasked ==
    Prepared => \A p \in DOMAIN wa : ~(er[p] > 0) => masked[p]

\* the unmask step has run on a chunk with fewer than minpix valid pixels, in
\* which a pixel without a valid error has more flux than a valid one
C19_Witness ==
    /\ JustUnmasked
    /\ \E k \in DOMAIN indices :
           /\ ValidPixels(indices[k]) # {}
           /\ Cardinality(ValidPixels(indices[k])) < DefaultMinpix
           /\ \E p \in Slice(indices[k][1], indices[k][2]) \ ValidPixels(indices[k]),
                 q \in ValidPixels(indices[k]) : fl[p] > fl[q]

\* C20: at the start of every pass every chunk of the lists has an unmasked
\* pixel.
C20_ChunksNeverEmpty ==
    pc = "loop" => \A k \in DOMAIN indices : Unmasked(indices[k], masked) # {}

\* a later pass starts after a pass whose outlier step had masked every
\* pixel of a chunk
C20_Witness ==
    /\ pc = "loop"
    /\ count >= 1
    /\ \E k \in DOMAIN indices : Unmasked(indices[k], BeforeUnmask) = {}

====
